---------------------------- MODULE Spec2Model ----------------------------
(***************************************************************************)
(* Model of the IR service driver (src/ir_driver.ino) and of the handlers  *)
(* that call it (src/unnamed/part_000, the sketch of firmware 0.0.6).      *)
(*                                                                         *)
(* Text is modelled character by character: a C string or Arduino String   *)
(* is a sequence of one-character strings, indexed from 0 as in the code   *)
(* (element i of the code is s[i+1] here).                                 *)
(***************************************************************************)
EXTENDS Integers, Sequences, FiniteSets, TLC

(***************************************************************************)
(* Bounds of the model.                                                    *)
(***************************************************************************)
\* number of command handler invocations that may be in flight together
NumRequests == 2
\* largest number of value tokens of a long-form payload drawn as input
MaxValues == 7
\* largest number of leading raw durations of a decode result that are varied
MaxVaried == 2

(***************************************************************************)
(* Characters.                                                             *)
(***************************************************************************)
DecDigits == <<"0", "1", "2", "3", "4", "5", "6", "7", "8", "9">>
UpperHex == <<"A", "B", "C", "D", "E", "F">>
LowerHex == <<"a", "b", "c", "d", "e", "f">>

\* isdigit(c)
isdigit(c) == \E i \in 1..10 : DecDigits[i] = c
\* isupper(c), for the characters a hex digit can be
isupper(c) == \E i \in 1..6 : UpperHex[i] = c
\* isxdigit(c)
isxdigit(c) ==
    isdigit(c) \/ (\E i \in 1..6 : UpperHex[i] = c) \/ (\E i \in 1..6 : LowerHex[i] = c)

\* c - '0'
DecDigitVal(c) == (CHOOSE i \in 1..10 : DecDigits[i] = c) - 1
\* c - 'A' + 10
UpperVal(c) == (CHOOSE i \in 1..6 : UpperHex[i] = c) + 9
\* c - 'a' + 10
LowerVal(c) == (CHOOSE i \in 1..6 : LowerHex[i] = c) + 9
\* the value of one hexadecimal digit, as the three branches of the code
HexDigitVal(c) ==
    IF isdigit(c) THEN DecDigitVal(c)
    ELSE IF isupper(c) THEN UpperVal(c)
    ELSE LowerVal(c)

(***************************************************************************)
(* Arduino String operations, as WString.cpp defines them.                 *)
(***************************************************************************)
\* a position the code passes as "unsigned int": -1 converts to UINT_MAX,
\* which is beyond every string length
AsUnsigned(i, len) == IF i < 0 THEN len + 1 ELSE i

RECURSIVE strchrFrom(_, _, _)
strchrFrom(s, ch, from) ==
    IF from >= Len(s) THEN -1
    ELSE IF s[from + 1] = ch THEN from
    ELSE strchrFrom(s, ch, from + 1)

\* String::indexOf(char ch, unsigned int fromIndex)
indexOf(s, ch, fromIndex) ==
    IF fromIndex >= Len(s) THEN -1 ELSE strchrFrom(s, ch, fromIndex)

\* String::substring(unsigned int left, unsigned int right)
substring(s, left0, right0) ==
    LET l0 == AsUnsigned(left0, Len(s))
        r0 == AsUnsigned(right0, Len(s))
        left == IF l0 > r0 THEN r0 ELSE l0
        right1 == IF l0 > r0 THEN l0 ELSE r0
        right == IF right1 > Len(s) THEN Len(s) ELSE right1
    IN  IF left >= Len(s) THEN << >>
        ELSE SubSeq(s, left + 1, right)

\* String::substring(unsigned int beginIndex)
substringFrom(s, left) == substring(s, left, Len(s))

\* String::startsWith(const String &prefix)
startsWith(s, prefix) ==
    Len(s) >= Len(prefix) /\ SubSeq(s, 1, Len(prefix)) = prefix

(***************************************************************************)
(* C conversions.  The tokens of the model are short, so none of them      *)
(* reaches the saturation of strtoul()/atol(); leading white space is not  *)
(* in the alphabet.                                                        *)
(***************************************************************************)
RECURSIVE DecPrefix(_, _, _)
\* the value of the longest run of decimal digits starting at offset i
DecPrefix(s, i, acc) ==
    IF i < Len(s) /\ isdigit(s[i + 1])
    THEN DecPrefix(s, i + 1, acc * 10 + DecDigitVal(s[i + 1]))
    ELSE acc

\* atol()/atoi()/strtoul(.., 10) read as a signed int: optional sign, digits
atol(s) ==
    IF Len(s) > 0 /\ s[1] = "-" THEN 0 - DecPrefix(s, 1, 0)
    ELSE IF Len(s) > 0 /\ s[1] = "+" THEN DecPrefix(s, 1, 0)
    ELSE DecPrefix(s, 0, 0)

\* conversion of an integer to uint16_t
U16(n) == n % 65536

\* String::toInt() stored in a uint16_t
toInt16(s) == U16(atol(s))

RECURSIVE HexPrefix16(_, _, _)
\* the value, modulo 2^16, of the longest run of hex digits starting at i
HexPrefix16(s, i, acc) ==
    IF i < Len(s) /\ isxdigit(s[i + 1])
    THEN HexPrefix16(s, i + 1, (acc * 16 + HexDigitVal(s[i + 1])) % 65536)
    ELSE acc

\* the digits of strtoul(.., 16) from offset i: an optional "0x", hex digits
HexBody16(s, i) ==
    IF Len(s) >= i + 3 /\ s[i + 1] = "0" /\ s[i + 2] \in {"x", "X"}
       /\ isxdigit(s[i + 3])
    THEN HexPrefix16(s, i + 2, 0)
    ELSE HexPrefix16(s, i, 0)

\* strtoul(str, NULL, 16) stored in a uint16_t: optional sign, then the digits
strtoul16(s) ==
    IF Len(s) > 0 /\ s[1] = "-" THEN U16(0 - HexBody16(s, 1))
    ELSE IF Len(s) > 0 /\ s[1] = "+" THEN HexBody16(s, 1)
    ELSE HexBody16(s, 0)

(***************************************************************************)
(* A uint64_t is kept as its 16 hexadecimal digits, most significant       *)
(* first, so that "result *= 16; result += d" is exact modulo 2^64.        *)
(***************************************************************************)
Zero64 == [i \in 1..16 |-> 0]
\* result = result * 16 + d, in 64 bits
Shift64(r, d) == [i \in 1..16 |-> IF i < 16 THEN r[i + 1] ELSE d]

RECURSIVE HexLoop64(_, _, _)
HexLoop64(s, offset, result) ==
    IF offset < Len(s) /\ isxdigit(s[offset + 1])
    THEN HexLoop64(s, offset + 1, Shift64(result, HexDigitVal(s[offset + 1])))
    ELSE result

getUInt64fromHex_noPrefix(s) == HexLoop64(s, 0, Zero64)

\* getUInt64fromHex(str)
getUInt64fromHex(s) ==
    LET offset == IF Len(s) >= 2 /\ s[1] = "0" /\ s[2] \in {"x", "X"} THEN 2 ELSE 0
    IN  HexLoop64(s, offset, Zero64)

(***************************************************************************)
(* Decimal and hexadecimal output.                                         *)
(***************************************************************************)
RECURSIVE DecDigitsOf(_)
DecDigitsOf(n) ==
    IF n < 10 THEN <<DecDigits[n + 1]>>
    ELSE Append(DecDigitsOf(n \div 10), DecDigits[(n % 10) + 1])

\* String(int): the decimal text of a signed integer
StringOfInt(n) == IF n < 0 THEN <<"-">> \o DecDigitsOf(0 - n) ELSE DecDigitsOf(n)

\* one digit of uint64ToString(), which writes upper-case letters
HexChar(d) == IF d < 10 THEN DecDigits[d + 1] ELSE UpperHex[d - 9]

RECURSIVE StripZeros(_)
StripZeros(ds) ==
    IF Len(ds) > 1 /\ ds[1] = 0 THEN StripZeros(Tail(ds)) ELSE ds

\* uint64ToString(code, 16)
uint64ToString16(code) ==
    LET ds == StripZeros(code) IN [i \in 1..Len(ds) |-> HexChar(ds[i])]

(***************************************************************************)
(* strtok_r(.., ",", ..): the non-empty runs of characters between commas. *)
(***************************************************************************)
RECURSIVE strtok_all(_, _, _)
strtok_all(s, i, cur) ==
    IF i > Len(s) THEN (IF cur = << >> THEN << >> ELSE <<cur>>)
    ELSE IF s[i] = "," THEN
        (IF cur = << >> THEN strtok_all(s, i + 1, << >>)
         ELSE <<cur>> \o strtok_all(s, i + 1, << >>))
    ELSE strtok_all(s, i + 1, Append(cur, s[i]))

\* the successive results of strtok_r on a copy of s, before the final NULL
strtok_r(s) == strtok_all(s, 1, << >>)

(***************************************************************************)
(* Long-form codecs.                                                       *)
(***************************************************************************)
RECURSIVE countLoop(_, _, _, _)
\* the do/while of countValuesInStr: one increment per pass
countLoop(str, sep, index0, count) ==
    LET index == indexOf(str, sep, index0 + 1)
    IN  IF index # -1 THEN countLoop(str, sep, index, count + 1)
        ELSE count + 1

\* the value "count" starts from in countValuesInStr
countStart == 1

countValuesInStr_separators(str, sep) == countLoop(str, sep, -1, countStart) - 2

\* countValuesInStr(str, sep)
countValuesInStr(str, sep) == countLoop(str, sep, -1, countStart)

\* the conversion a fill loop applies to one token
Convert(tok, hex) == IF hex THEN strtoul16(tok) ELSE toInt16(tok)

RECURSIVE fillLoop(_, _, _, _)
\* the do/while that stores one converted token per pass; the result is the
\* array contents, its length the final value of "count"
fillLoop(str, start_from, hex, arr) ==
    LET index == indexOf(str, ",", start_from)
        next == Append(arr, Convert(substring(str, start_from, index), hex))
    IN  IF index # -1 THEN fillLoop(str, index + 1, hex, next)
        ELSE next

\* a call of a hardware send primitive of IRsend
HwCall(fn, code, bits, repeat, data, freq, alloc) ==
    [fn |-> fn, code |-> code, bits |-> bits, repeat |-> repeat,
     data |-> data, freq |-> freq, alloc |-> alloc]

\* what a codec or a switch case did: its result, and the hardware calls made
Outcome(success, calls) == [success |-> success, calls |-> calls]

\* the literal "1:1,1,"
GCPrefix == <<"1", ":", "1", ",", "1", ",">>

StripGCPrefix_short(str) ==
    IF startsWith(str, GCPrefix) THEN substringFrom(str, Len(GCPrefix) - 2) ELSE str

\* parseStringAndSendGC: the removal of a leading "1:1,1,"
StripGCPrefix(str) ==
    IF startsWith(str, GCPrefix) THEN substringFrom(str, Len(GCPrefix)) ELSE str

\* parseStringAndSendGC(str)
parseStringAndSendGC(str) ==
    LET tmp_str == StripGCPrefix(str)
        alloc == countValuesInStr(tmp_str, ",")
        code_array == fillLoop(tmp_str, 0, FALSE, << >>)
        count == Len(code_array)
    IN  Outcome(count > 0,
                <<HwCall("sendGC", Zero64, 0, 0, code_array, 0, alloc)>>)

\* kProntoMinLength of the IR library
kProntoMinLength == 6

\* parseStringAndSendPronto: whether the payload carries an embedded repeat
HasEmbeddedRepeat(str) == startsWith(str, <<"R">>) \/ startsWith(str, <<"r">>)

ProntoRepeats_argument(str, repeats) == repeats

\* parseStringAndSendPronto: the repeat count that goes to sendPronto
ProntoRepeats(str, repeats) ==
    IF HasEmbeddedRepeat(str)
    THEN toInt16(substring(str, 1, indexOf(str, ",", 0)))
    ELSE repeats

\* parseStringAndSendPronto: where the value tokens start
ProntoStart(str) ==
    IF HasEmbeddedRepeat(str) THEN U16(indexOf(str, ",", 0) + 1) ELSE 0

\* parseStringAndSendPronto: "count" when it is compared to the minimum
ProntoCount(str) ==
    IF HasEmbeddedRepeat(str) THEN U16(countValuesInStr(str, ",") - 1)
    ELSE countValuesInStr(str, ",")

parseStringAndSendPronto_noCheck(str, repeats) ==
    LET code_array == fillLoop(str, ProntoStart(str), TRUE, << >>)
    IN  Outcome(Len(code_array) > 0,
                <<HwCall("sendPronto", Zero64, 0, ProntoRepeats(str, repeats),
                         code_array, 0, ProntoCount(str))>>)

\* parseStringAndSendPronto(str, repeats)
parseStringAndSendPronto(str, repeats) ==
    LET alloc == ProntoCount(str)
        code_array == fillLoop(str, ProntoStart(str), TRUE, << >>)
        count == Len(code_array)
    IN  IF alloc < kProntoMinLength THEN Outcome(FALSE, << >>)
        ELSE Outcome(count > 0,
                     <<HwCall("sendPronto", Zero64, 0, ProntoRepeats(str, repeats),
                              code_array, 0, alloc)>>)

\* the least "count" parseStringAndSendRaw accepts
RawMinCount == 2

\* parseStringAndSendRaw(str)
parseStringAndSendRaw(str) ==
    LET count0 == countValuesInStr(str, ",")
        alloc == count0 - 1
        index == indexOf(str, ",", 0)
        freq == toInt16(substring(str, 0, index))
        start_from == U16(index + 1)
        raw_array == fillLoop(str, start_from, FALSE, << >>)
        count == Len(raw_array)
    IN  IF count0 < RawMinCount THEN Outcome(FALSE, << >>)
        ELSE Outcome(count > 0,
                     <<HwCall("sendRaw", Zero64, 0, 0, raw_array, freq, alloc)>>)

(***************************************************************************)
(* Protocol ids (decode_type_t of the IR library) that sendIRCode names,   *)
(* with the library's default bit widths and minimum repeat counts.        *)
(***************************************************************************)
RC5 == 1
RC6 == 2
NEC == 3
SONY == 4
PANASONIC == 5
JVC == 6
SAMSUNG == 7
WHYNTER == 8
AIWA_RC_T501 == 9
LG == 10
MITSUBISHI == 12
DISH == 13
SHARP == 14
COOLIX == 15
DENON == 17
SHERWOOD == 19
RCMM == 21
SANYO_LC7461 == 22
RC5X == 23
NIKAI == 29
MIDEA == 34
MAGIQUEST == 35
LASERTAG == 36
MITSUBISHI2 == 39
GICABLE == 43
LUTRON == 47
PIONEER == 50
LG2 == 51
PRONTO == 25
RAW == 30
GLOBALCACHE == 31

kRC5Bits == 12
kRC6Mode0Bits == 20
kNECBits == 32
kSony12Bits == 12
kPanasonicBits == 48
kJvcBits == 16
kSamsungBits == 32
kWhynterBits == 32
kAiwaRcT501Bits == 15
kLgBits == 28
kMitsubishiBits == 16
kDishBits == 16
kSharpBits == 15
kCoolixBits == 24
DENON_BITS == 15
kSherwoodBits == 32
kRCMMBits == 24
kSanyoLC7461Bits == 42
kRC5XBits == 13
kNikaiBits == 24
kMideaBits == 48
kMagiquestBits == 56
kLasertagBits == 13
kGicableBits == 16
kLutronBits == 35
kPioneerBits == 64

kSonyMinRepeat == 2
kAiwaRcT501MinRepeats == 1
kMitsubishiMinRepeat == 1
kDishMinRepeat == 3
kSherwoodMinRepeat == 1
kGicableMinRepeat == 1

\* the case labels of the switch that send a scalar code
ShortFormTypes ==
    {RC5, RC6, NEC, SONY, PANASONIC, JVC, SAMSUNG, WHYNTER, AIWA_RC_T501, LG, MITSUBISHI, DISH, SHARP, COOLIX, DENON, SHERWOOD, RCMM, SANYO_LC7461, RC5X, NIKAI, MIDEA, MAGIQUEST, LASERTAG, MITSUBISHI2, GICABLE, LUTRON, PIONEER, LG2}

\* the case labels of the switch that hand code_str to a codec
CodecTypes == {PRONTO, RAW, GLOBALCACHE}

\* the IRsend method each short-form case calls
SendFn(ir_type) ==
    CASE ir_type = RC5 -> "sendRC5"
      [] ir_type = RC6 -> "sendRC6"
      [] ir_type = NEC -> "sendNEC"
      [] ir_type = SONY -> "sendSony"
      [] ir_type = PANASONIC -> "sendPanasonic64"
      [] ir_type = JVC -> "sendJVC"
      [] ir_type = SAMSUNG -> "sendSAMSUNG"
      [] ir_type = WHYNTER -> "sendWhynter"
      [] ir_type = AIWA_RC_T501 -> "sendAiwaRCT501"
      [] ir_type = LG -> "sendLG"
      [] ir_type = MITSUBISHI -> "sendMitsubishi"
      [] ir_type = DISH -> "sendDISH"
      [] ir_type = SHARP -> "sendSharpRaw"
      [] ir_type = COOLIX -> "sendCOOLIX"
      [] ir_type = DENON -> "sendDenon"
      [] ir_type = SHERWOOD -> "sendSherwood"
      [] ir_type = RCMM -> "sendRCMM"
      [] ir_type = SANYO_LC7461 -> "sendSanyoLC7461"
      [] ir_type = RC5X -> "sendRC5"
      [] ir_type = NIKAI -> "sendNikai"
      [] ir_type = MIDEA -> "sendMidea"
      [] ir_type = MAGIQUEST -> "sendMagiQuest"
      [] ir_type = LASERTAG -> "sendLasertag"
      [] ir_type = MITSUBISHI2 -> "sendMitsubishi2"
      [] ir_type = GICABLE -> "sendGICable"
      [] ir_type = LUTRON -> "sendLutron"
      [] ir_type = PIONEER -> "sendPioneer"
      [] ir_type = LG2 -> "sendLG2"

\* the value each short-form case gives "bits" when it is 0
DefaultBits(ir_type) ==
    CASE ir_type = RC5 -> kRC5Bits
      [] ir_type = RC6 -> kRC6Mode0Bits
      [] ir_type = NEC -> kNECBits
      [] ir_type = SONY -> kSony12Bits
      [] ir_type = PANASONIC -> kPanasonicBits
      [] ir_type = JVC -> kJvcBits
      [] ir_type = SAMSUNG -> kSamsungBits
      [] ir_type = WHYNTER -> kWhynterBits
      [] ir_type = AIWA_RC_T501 -> kAiwaRcT501Bits
      [] ir_type = LG -> kLgBits
      [] ir_type = MITSUBISHI -> kMitsubishiBits
      [] ir_type = DISH -> kDishBits
      [] ir_type = SHARP -> kSharpBits
      [] ir_type = COOLIX -> kCoolixBits
      [] ir_type = DENON -> DENON_BITS
      [] ir_type = SHERWOOD -> kSherwoodBits
      [] ir_type = RCMM -> kRCMMBits
      [] ir_type = SANYO_LC7461 -> kSanyoLC7461Bits
      [] ir_type = RC5X -> kRC5XBits
      [] ir_type = NIKAI -> kNikaiBits
      [] ir_type = MIDEA -> kMideaBits
      [] ir_type = MAGIQUEST -> kMagiquestBits
      [] ir_type = LASERTAG -> kLasertagBits
      [] ir_type = MITSUBISHI2 -> kMitsubishiBits
      [] ir_type = GICABLE -> kGicableBits
      [] ir_type = LUTRON -> kLutronBits
      [] ir_type = PIONEER -> kPioneerBits
      [] ir_type = LG2 -> kLgBits

\* the cases that raise "repeat" with std::max
MinRepeatTypes ==
    {SONY, AIWA_RC_T501, MITSUBISHI, DISH, SHERWOOD, MITSUBISHI2, GICABLE}

\* the second argument of std::max in those cases
MinRepeat(ir_type) ==
    CASE ir_type = SONY -> kSonyMinRepeat
      [] ir_type = AIWA_RC_T501 -> kAiwaRcT501MinRepeats
      [] ir_type = MITSUBISHI -> kMitsubishiMinRepeat
      [] ir_type = DISH -> kDishMinRepeat
      [] ir_type = SHERWOOD -> kSherwoodMinRepeat
      [] ir_type = MITSUBISHI2 -> kMitsubishiMinRepeat
      [] ir_type = GICABLE -> kGicableMinRepeat

(***************************************************************************)
(* sendIRCode: the switch.                                                 *)
(***************************************************************************)
Max(a, b) == IF a > b THEN a ELSE b

BitsSent_alwaysDefault(ir_type, bits) == DefaultBits(ir_type)

\* "bits" as the case passes it on
BitsSent(ir_type, bits) == IF bits = 0 THEN DefaultBits(ir_type) ELSE bits

RepeatSent_assign(ir_type, repeat) ==
    IF ir_type \in MinRepeatTypes THEN MinRepeat(ir_type) ELSE repeat

\* "repeat" as the case passes it on
RepeatSent(ir_type, repeat) ==
    IF ir_type \in MinRepeatTypes THEN Max(repeat, MinRepeat(ir_type)) ELSE repeat

DefaultCase_success == Outcome(TRUE, << >>)

\* the default label: nothing is sent
DefaultCase == Outcome(FALSE, << >>)

\* the body of the switch for arguments a; "success" starts as true
SendSwitch(a) ==
    IF a.ir_type \in ShortFormTypes THEN
        Outcome(TRUE,
                <<HwCall(SendFn(a.ir_type), a.code, BitsSent(a.ir_type, a.bits),
                         RepeatSent(a.ir_type, a.repeat), << >>, 0, 0)>>)
    ELSE IF a.ir_type = PRONTO THEN parseStringAndSendPronto(a.code_str, a.repeat)
    ELSE IF a.ir_type = RAW THEN parseStringAndSendRaw(a.code_str)
    ELSE IF a.ir_type = GLOBALCACHE THEN parseStringAndSendGC(a.code_str)
    ELSE DefaultCase

\* the locals "bits" and "repeat" of sendIRCode after the switch
BitsAfter(a) ==
    IF a.ir_type \in ShortFormTypes THEN BitsSent(a.ir_type, a.bits) ELSE a.bits
RepeatAfter(a) ==
    IF a.ir_type \in ShortFormTypes THEN RepeatSent(a.ir_type, a.repeat) ELSE a.repeat

\* hasACState(): the protocols of the library that carry a state block
\* (DAIKIN, KELVINATOR, MITSUBISHI_AC, GREE, TOSHIBA_AC, FUJITSU_AC,
\* HAIER_AC, HITACHI_AC, HITACHI_AC1, HITACHI_AC2, HAIER_AC_YRW02,
\* WHIRLPOOL_AC, SAMSUNG_AC, ELECTRA_AC, PANASONIC_AC, MWM)
hasACState(ir_type) ==
    ir_type \in {16, 18, 20, 24, 32, 33, 38, 40, 41, 42, 44, 45, 46, 48, 49, 52}

\* the text sendIRCode stores in gsCommandString after a successful send
EchoString(a, bits, repeat) ==
    IF hasACState(a.ir_type) \/ a.ir_type \in CodecTypes THEN
        IF a.ir_type = PRONTO /\ repeat > 0
        THEN StringOfInt(a.ir_type) \o <<",", "R">> \o StringOfInt(repeat)
                 \o <<",">> \o a.code_str
        ELSE StringOfInt(a.ir_type) \o <<",">> \o a.code_str
    ELSE StringOfInt(a.ir_type) \o <<",">> \o uint64ToString16(a.code) \o <<",">>
             \o StringOfInt(bits) \o <<",">> \o StringOfInt(repeat)

(***************************************************************************)
(* processCommand: the decoding of the command string.                     *)
(***************************************************************************)
\* the arguments processCommand passes to sendIRCode, for a command with at
\* least two tokens
DecodeCommand(commandString) ==
    LET toks == strtok_r(commandString)
    IN  [ir_type |-> atol(toks[1]),
         code |-> getUInt64fromHex(toks[2]),
         code_str |-> substringFrom(commandString, indexOf(commandString, ",", 0) + 1),
         bits |-> IF Len(toks) >= 3 THEN U16(atol(toks[3])) ELSE 0,
         repeat |-> IF Len(toks) >= 4 THEN U16(atol(toks[4])) ELSE 0]

NoArgs == [ir_type |-> 0, code |-> Zero64, code_str |-> << >>, bits |-> 0, repeat |-> 0]

(***************************************************************************)
(* irDriverLoop: the text built for a decode result.  A decode result is a *)
(* record of the fields irDriverLoop reads: decode_type, value, bits,      *)
(* rawlen, rawbuf (rawbuf[i] of the code is element i + 1 here) and, for   *)
(* the protocols with a state block, state.                                *)
(***************************************************************************)
UNKNOWN == -1
kRawTick == 2
UINT16_MAX == 65535
\* irrecv.setUnknownThreshold(kMinUnknownSize): the least rawlen of a result
\* of the UNKNOWN type
kMinUnknownSize == 20

\* one byte of the state block: a "0" pad below 0x10, then uint64ToString(b, 16)
StateByteHex(b) ==
    (IF b < 16 THEN <<"0">> ELSE << >>) \o uint64ToString16(<<b \div 16, b % 16>>)

RECURSIVE StateHex(_, _, _)
\* resultToHexidecimal: for (i = 0; result->bits > i * 8; i++) over state[]
StateHex(state, bits, i) ==
    IF bits > i * 8
    THEN StateByteHex(state[i + 1]) \o StateHex(state, bits, i + 1)
    ELSE << >>

\* resultToHexidecimal(&capture)
resultToHexidecimal(c) ==
    IF hasACState(c.decode_type) THEN StateHex(c.state, c.bits, 0)
    ELSE uint64ToString16(c.value)

\* uint64ToString(n, 10)
uint64ToString10(n) == DecDigitsOf(n)

RECURSIVE DurationText_geq(_)
DurationText_geq(usecs) ==
    IF usecs >= UINT16_MAX
    THEN uint64ToString10(UINT16_MAX) \o <<",", "0", ",">>
             \o DurationText_geq(usecs - UINT16_MAX)
    ELSE uint64ToString10(usecs)

RECURSIVE DurationText(_)
\* the inner loop over usecs and the append of what is left of it
DurationText(usecs) ==
    IF usecs > UINT16_MAX
    THEN uint64ToString10(UINT16_MAX) \o <<",", "0", ",">>
             \o DurationText(usecs - UINT16_MAX)
    ELSE uint64ToString10(usecs)

RECURSIVE RawText(_, _)
\* for (i = 1; i < capture.rawlen; i++): the durations and their commas
RawText(c, i) ==
    IF i < c.rawlen
    THEN DurationText(c.rawbuf[i + 1] * kRawTick)
             \o (IF i < c.rawlen - 1 THEN <<",">> ELSE << >>)
             \o RawText(c, i + 1)
    ELSE << >>

ReceiverBits_always(c) == <<",">> \o StringOfInt(c.bits)

\* "If it isn't an AC code, add the bits."
ReceiverBits(c) ==
    IF ~hasACState(c.decode_type) THEN <<",">> \o StringOfInt(c.bits) ELSE << >>

\* the text irDriverLoop stores in gsReceiverString
ReceiverString(c) ==
    StringOfInt(c.decode_type) \o <<",">> \o resultToHexidecimal(c)
        \o (IF c.decode_type = UNKNOWN THEN <<";">> \o RawText(c, 1) ELSE << >>)
        \o ReceiverBits(c)

\* the global decode_results capture before any decode
NoCapture ==
    [decode_type |-> 0, value |-> Zero64, bits |-> 0, rawlen |-> 0,
     rawbuf |-> << >>, state |-> << >>]

(***************************************************************************)
(* The program state.                                                      *)
(*                                                                         *)
(* The firmware runs cooperatively: a handler keeps control until it calls *)
(* delay(), and a hardware send of the IR library waits with delay() for   *)
(* the long gaps of a message.  A request is therefore either parked at    *)
(* one of those yield points or it is the only one executing.              *)
(***************************************************************************)
VARIABLES
    ir_lock,          \* bool ir_lock
    gsCommandString,  \* String gsCommandString
    published,        \* last value sent on the "command" property
    source,           \* the commands the broker may deliver on command/set
    pc,               \* where each invocation of commandHandler is
    value,            \* commandHandler's argument "value"
    args,             \* the arguments of the running sendIRCode call
    hw,               \* hardware send calls made by the current dispatch
    result,           \* what processCommand returned ("none" before it returns)
    released,         \* assignments ir_lock = false made by the current dispatch
    waited,           \* whether the request found the lock taken and waited
    blocks,           \* heap blocks each invocation allocated and has not freed
    gbDecoderEnabled, \* volatile bool gbDecoderEnabled
    gsReceiverString, \* String gsReceiverString
    capture,          \* decode_results capture
    received,         \* last value sent on the "received" property
    decoderEnabled,   \* last value sent on the "decoderEnabled" property
    captures,         \* the decode results the receiver may deliver
    toggles,          \* the values the broker may deliver on decoderEnabled/set
    polledLocked      \* whether ir_lock was true when irDriverLoop last formatted

\* the state of the send side, and the state of the receive side
sendVars == <<ir_lock, gsCommandString, published, source, pc, value, args, hw,
              result, released, waited, blocks>>
recvVars == <<gbDecoderEnabled, gsReceiverString, capture, received,
              decoderEnabled, captures, toggles, polledLocked>>

vars == <<sendVars, recvVars>>

Requests == 1..NumRequests

\* the places where a request has given up control
YieldPoints == {"idle", "interval", "delay20", "sending", "allocfail"}

\* request p may execute: every other request is parked
CanRun(p) == \A q \in Requests \ {p} : pc[q] \in YieldPoints

(***************************************************************************)
(* Command strings used as inputs.                                         *)
(***************************************************************************)
RECURSIVE Join(_)
\* the tokens separated by commas
Join(toks) ==
    IF toks = << >> THEN << >>
    ELSE IF Len(toks) = 1 THEN toks[1]
    ELSE toks[1] \o <<",">> \o Join(Tail(toks))

\* protocol ids given as first token: the ids of the library, one far beyond
\* them and a negative one
TypeIds == (0..52) \cup {9999, -3}

CodeToks == {<<"f", "f">>, <<"0", "x", "1", "A">>}
BitsToks == {<<"0">>, <<"1", "2">>}
RepeatToks == {<<"0">>, <<"1">>, <<"2">>, <<"3">>, <<"5">>}

\* commands of the short form: id,code[,bits[,repeat]]
ShortCommands ==
    LET id == {StringOfInt(t) : t \in TypeIds}
    IN  {Join(<<t, c>>) : t \in id, c \in CodeToks}
        \cup {Join(<<t, c, b>>) : t \in id, c \in CodeToks, b \in BitsToks}
        \cup {Join(<<t, c, b, r>>) :
                 t \in id, c \in CodeToks, b \in BitsToks, r \in RepeatToks}

\* the i-th value token of a Pronto payload
ProntoTok(i) ==
    CASE i % 4 = 1 -> <<"0", "0", "0", "0">>
      [] i % 4 = 2 -> <<"0", "0", "6", "7">>
      [] i % 4 = 3 -> <<"0", "0", "1", "5">>
      [] OTHER -> <<"0", "3", "f", "6">>

\* the i-th token of a decimal value list
DecTok(i) ==
    CASE i = 1 -> <<"3", "8", "0", "0", "0">>
      [] i % 3 = 2 -> <<"1">>
      [] i % 3 = 0 -> <<"1", "7", "0">>
      [] OTHER -> <<"7", "0", "0", "0", "0">>

ProntoPrefixes == {<< >>, <<<<"R", "2">>>>, <<<<"r", "3">>>>, <<<<"R">>>>}

\* Pronto payloads of 0..MaxValues value tokens, with and without R token
ProntoPayloads ==
    {Join(pre \o [i \in 1..n |-> ProntoTok(i)]) :
        pre \in ProntoPrefixes, n \in 0..MaxValues}

\* decimal value lists of 1..MaxValues tokens
DecLists == {Join([i \in 1..n |-> DecTok(i)]) : n \in 1..MaxValues}

\* GlobalCache payloads: a value list, with and without the "1:1,1," prefix
GCPayloads == DecLists \cup {GCPrefix \o l : l \in DecLists}

\* commands of the long form; an empty payload leaves the id and a comma
LongCommands ==
    {StringOfInt(PRONTO) \o <<",">> \o pl : pl \in ProntoPayloads}
    \cup {StringOfInt(RAW) \o <<",">> \o pl : pl \in DecLists}
    \cup {StringOfInt(GLOBALCACHE) \o <<",">> \o pl : pl \in GCPayloads}

\* commands without a second token, and one without any token
ShortOfTokens == {<<"3">>, <<"3", ",">>, <<"3", "0">>, <<",", "3">>}
NoToken == {<<",">>}

\* commands whose first token is not a decimal number
BadIdCommands == {<<"a", "b", "c", ",", "f", "f">>, <<"3", "x", ",", "f", "f">>}

\* commands with an empty field: "3,ff,,2" and "3,,ff"
EmptyFieldCommands ==
    {<<"3", ",", "f", "f", ",", ",", "2">>, <<"3", ",", ",", "f", "f">>}

Commands ==
    ShortCommands \cup LongCommands \cup ShortOfTokens \cup NoToken \cup BadIdCommands
        \cup EmptyFieldCommands

\* the commands of requests that run concurrently
ConcCommands ==
    {Join(<<StringOfInt(NEC), <<"f", "f">>>>),
     Join(<<StringOfInt(SONY), <<"1", "a">>, <<"1", "2">>, <<"1">>>>),
     StringOfInt(PRONTO) \o <<",">> \o Join(<<<<"R", "2">>>> \o [i \in 1..6 |-> ProntoTok(i)]),
     StringOfInt(PRONTO) \o <<",">> \o Join([i \in 1..2 |-> ProntoTok(i)]),
     StringOfInt(RAW) \o <<",">> \o Join([i \in 1..3 |-> DecTok(i)]),
     Join(<<StringOfInt(9999), <<"f", "f">>>>),
     <<"3">>, <<",">>}

\* the values delivered on decoderEnabled/set
TrueText == <<"t", "r", "u", "e">>
FalseText == <<"f", "a", "l", "s", "e">>
ToggleValues == {TrueText, FalseText, <<"o", "n">>}

\* decoded codes: 0xFF, 0x1A, zero and one that fills the 64 bits
RecvCodes ==
    {[i \in 1..16 |-> IF i > 14 THEN 15 ELSE 0],
     [i \in 1..16 |-> IF i = 15 THEN 1 ELSE IF i = 16 THEN 10 ELSE 0],
     Zero64,
     <<10, 11, 12, 13, 14, 15, 0, 1, 2, 3, 4, 5, 6, 7, 8, 9>>}
RecvBits == {12, 32}

\* tick counts of the raw buffer: twice the count is the duration
Ticks == {0, 32768, 65535}

\* raw buffers of kMinUnknownSize entries: the leading gap, up to MaxVaried
\* durations drawn from Ticks, and durations of 32767 ticks after them
RawBufs ==
    UNION {{<<1000>> \o f \o [i \in 1..(kMinUnknownSize - 1 - n) |-> 32767] :
               f \in [1..n -> Ticks]} : n \in 0..MaxVaried}

\* state blocks of two and three bytes
StateBlocks == {<<35, 11>>, <<160, 5, 255>>}

ACTypes == {t \in 0..52 : hasACState(t)}

\* the decode results irrecv.decode() may deliver
Captures ==
    {[decode_type |-> t, value |-> c, bits |-> b, rawlen |-> 1,
      rawbuf |-> <<1000>>, state |-> << >>] :
        t \in {NEC}, c \in RecvCodes, b \in RecvBits}
    \cup {[decode_type |-> t, value |-> CHOOSE c \in RecvCodes : c[1] = 10,
           bits |-> DefaultBits(t), rawlen |-> 1, rawbuf |-> <<1000>>,
           state |-> << >>] :
        t \in ShortFormTypes}
    \cup {[decode_type |-> UNKNOWN, value |-> c, bits |-> Len(r) \div 2,
           rawlen |-> Len(r), rawbuf |-> r, state |-> << >>] :
        c \in {<<10, 11, 12, 13, 14, 15, 0, 1, 2, 3, 4, 5, 6, 7, 8, 9>>},
        r \in RawBufs}
    \cup {[decode_type |-> t, value |-> Zero64, bits |-> 8 * Len(st),
           rawlen |-> 1, rawbuf |-> <<1000>>, state |-> st] :
        t \in ACTypes, st \in {<<160, 5, 255>>}}
    \cup {[decode_type |-> CHOOSE t \in ACTypes : \A u \in ACTypes : t <= u,
           value |-> Zero64, bits |-> 8 * Len(st),
           rawlen |-> 1, rawbuf |-> <<1000>>, state |-> st] :
        st \in StateBlocks}

\* the command the broker sends while the receiver is observed
RecvCommand == Join(<<StringOfInt(NEC), <<"f", "f">>>>)

\* the decode results during which the broker also sends the toggle values
ToggleCaptures == {k \in Captures : k.decode_type = NEC}

\* The state after setup().  The broker's repertoire is either the mixed
\* set of commands, or one single command (sent any number of times); or it
\* is one command while the receiver delivers one decode result (any number
\* of times), with the toggle values for the results of ToggleCaptures.
Init ==
    /\ ir_lock = FALSE
    /\ gsCommandString = << >>
    /\ published = << >>
    /\ \/ /\ source \in {ConcCommands} \cup {{c} : c \in Commands}
          /\ captures = {}
          /\ toggles = {}
       \/ /\ source = {RecvCommand}
          /\ captures \in {{k} : k \in Captures}
          /\ toggles = IF captures \subseteq ToggleCaptures THEN ToggleValues ELSE {}
    /\ gbDecoderEnabled = FALSE
    /\ gsReceiverString = << >>
    /\ capture = NoCapture
    /\ received = << >>
    /\ decoderEnabled = << >>
    /\ polledLocked = FALSE
    /\ pc = [p \in Requests |-> "idle"]
    /\ value = [p \in Requests |-> << >>]
    /\ args = [p \in Requests |-> NoArgs]
    /\ hw = [p \in Requests |-> << >>]
    /\ result = [p \in Requests |-> "none"]
    /\ released = [p \in Requests |-> 0]
    /\ waited = [p \in Requests |-> FALSE]
    /\ blocks = [p \in Requests |-> 0]

(***************************************************************************)
(* Actions.                                                                *)
(***************************************************************************)
\* commandHandler is entered with a message and waits the sensors interval
Receive(p) ==
    /\ pc[p] = "idle"
    /\ CanRun(p)
    /\ \E c \in source : value' = [value EXCEPT ![p] = c]
    /\ pc' = [pc EXCEPT ![p] = "interval"]
    /\ UNCHANGED <<ir_lock, gsCommandString, published, source, args, hw,
                   result, released, waited>>
    /\ UNCHANGED blocks
    /\ UNCHANGED recvVars

EarlyReturn_true == "true"

\* what processCommand returns when the second strtok_r gives NULL
EarlyReturn == "false"

\* processCommand up to the call of sendIRCode, or to its early return; the
\* working copy strdup() makes is one heap block
ProcessCommand(p) ==
    /\ pc[p] = "interval"
    /\ CanRun(p)
    /\ LET toks == strtok_r(value[p])
       IN  IF toks = << >> THEN
               \* strtoul() is handed the NULL that strtok_r returned
               /\ pc' = [pc EXCEPT ![p] = "crashed"]
               /\ blocks' = [blocks EXCEPT ![p] = @ + 1]
               /\ UNCHANGED <<args, result>>
           ELSE IF Len(toks) < 2 THEN
               \* "return false" without free(callback_c_str)
               /\ result' = [result EXCEPT ![p] = EarlyReturn]
               /\ pc' = [pc EXCEPT ![p] = "publish"]
               /\ blocks' = [blocks EXCEPT ![p] = @ + 1]
               /\ UNCHANGED args
           ELSE
               \* strdup() and, after the last token, free(callback_c_str)
               /\ args' = [args EXCEPT ![p] = DecodeCommand(value[p])]
               /\ pc' = [pc EXCEPT ![p] = "lockwait"]
               /\ blocks' = [blocks EXCEPT ![p] = (@ + 1) - 1]
               /\ UNCHANGED result
    /\ UNCHANGED <<ir_lock, gsCommandString, published, source, value, hw,
                   released, waited>>
    /\ UNCHANGED recvVars

LockTaken_never == FALSE

\* the condition of "while (ir_lock)"
LockTaken == ir_lock

\* while (ir_lock) delay(20): the lock is taken, the request yields
Delay(p) ==
    /\ pc[p] = "lockwait"
    /\ CanRun(p)
    /\ LockTaken
    /\ pc' = [pc EXCEPT ![p] = "delay20"]
    /\ waited' = [waited EXCEPT ![p] = TRUE]
    /\ UNCHANGED <<ir_lock, gsCommandString, published, source, value, args, hw,
                   result, released>>
    /\ UNCHANGED blocks
    /\ UNCHANGED recvVars

\* delay(20) returns and the loop condition is evaluated again
Wake(p) ==
    /\ pc[p] = "delay20"
    /\ CanRun(p)
    /\ pc' = [pc EXCEPT ![p] = "lockwait"]
    /\ UNCHANGED <<ir_lock, gsCommandString, published, source, value, args, hw,
                   result, released, waited>>
    /\ UNCHANGED blocks
    /\ UNCHANGED recvVars

\* the loop ends and ir_lock = true
Acquire(p) ==
    /\ pc[p] = "lockwait"
    /\ CanRun(p)
    /\ ~LockTaken
    /\ ir_lock' = TRUE
    /\ pc' = [pc EXCEPT ![p] = "dispatch"]
    /\ UNCHANGED <<gsCommandString, published, source, value, args, hw, result,
                   released, waited>>
    /\ UNCHANGED blocks
    /\ UNCHANGED recvVars

\* what malloc() returns in newCodeArray: an array, or NULL when the heap
\* is exhausted
MallocResults == {"array", "NULL"}

\* the case for ir_type is a codec that gets past its length check and so
\* calls newCodeArray
CallsNewCodeArray(a) == a.ir_type \in CodecTypes /\ SendSwitch(a).calls # << >>

\* the switch: the case for ir_type runs up to its hardware call, if any, or
\* up to the delay(500) of newCodeArray when malloc() gave NULL
Dispatch(p) ==
    /\ pc[p] = "dispatch"
    /\ CanRun(p)
    /\ \E m \in MallocResults :
           LET out == SendSwitch(args[p])
           IN  IF CallsNewCodeArray(args[p]) /\ m = "NULL"
               THEN /\ pc' = [pc EXCEPT ![p] = "allocfail"]
                    /\ UNCHANGED <<hw, blocks>>
               ELSE /\ hw' = [hw EXCEPT ![p] = out.calls]
                    /\ blocks' = [blocks EXCEPT ![p] =
                                      IF CallsNewCodeArray(args[p]) THEN @ + 1 ELSE @]
                    /\ pc' = [pc EXCEPT ![p] =
                                  IF out.calls # << >> THEN "sending" ELSE "release"]
    /\ UNCHANGED <<ir_lock, gsCommandString, published, source, value, args,
                   result, released, waited>>
    /\ UNCHANGED recvVars

\* the hardware call returns (and a codec frees its array)
SendDone(p) ==
    /\ pc[p] = "sending"
    /\ CanRun(p)
    /\ pc' = [pc EXCEPT ![p] = "release"]
    /\ blocks' = [blocks EXCEPT ![p] =
                      IF CallsNewCodeArray(args[p]) THEN @ - 1 ELSE @]
    /\ UNCHANGED <<ir_lock, gsCommandString, published, source, value, args, hw,
                   result, released, waited>>
    /\ UNCHANGED recvVars

ReleasedLock_kept == ir_lock

\* the value "Release the lock" assigns to ir_lock
ReleasedLock == FALSE

\* ir_lock = false after the switch
Release(p) ==
    /\ pc[p] = "release"
    /\ CanRun(p)
    /\ ir_lock' = ReleasedLock
    /\ released' = [released EXCEPT ![p] = @ + 1]
    /\ pc' = [pc EXCEPT ![p] = "report"]
    /\ UNCHANGED <<gsCommandString, published, source, value, args, hw, result,
                   waited>>
    /\ UNCHANGED blocks
    /\ UNCHANGED recvVars

\* the rest of sendIRCode: the echo is stored on success, the result returned
Report(p) ==
    /\ pc[p] = "report"
    /\ CanRun(p)
    /\ LET success == SendSwitch(args[p]).success
       IN  /\ gsCommandString' =
                  IF success
                  THEN EchoString(args[p], BitsAfter(args[p]), RepeatAfter(args[p]))
                  ELSE gsCommandString
           /\ result' = [result EXCEPT ![p] = IF success THEN "true" ELSE "false"]
    /\ pc' = [pc EXCEPT ![p] = "publish"]
    /\ UNCHANGED <<ir_lock, published, source, value, args, hw, released, waited>>
    /\ UNCHANGED blocks
    /\ UNCHANGED recvVars

\* commandHandler sends gsCommandString on "command" and returns
PublishEcho(p) ==
    /\ pc[p] = "publish"
    /\ CanRun(p)
    /\ published' = gsCommandString
    /\ pc' = [pc EXCEPT ![p] = "idle"]
    /\ value' = [value EXCEPT ![p] = << >>]
    /\ args' = [args EXCEPT ![p] = NoArgs]
    /\ hw' = [hw EXCEPT ![p] = << >>]
    /\ result' = [result EXCEPT ![p] = "none"]
    /\ released' = [released EXCEPT ![p] = 0]
    /\ waited' = [waited EXCEPT ![p] = FALSE]
    /\ blocks' = [blocks EXCEPT ![p] = 0]
    /\ UNCHANGED <<ir_lock, gsCommandString, source>>
    /\ UNCHANGED recvVars

\* delay(500) of newCodeArray returns: newCodeArray returns NULL ("Should
\* never get here, but just in case") and the codec's loop stores its first
\* value in code_array[0]
NullStore(p) ==
    /\ pc[p] = "allocfail"
    /\ CanRun(p)
    /\ pc' = [pc EXCEPT ![p] = "nullstore"]
    /\ UNCHANGED <<ir_lock, gsCommandString, published, source, value, args, hw,
                   result, released, waited>>
    /\ UNCHANGED blocks
    /\ UNCHANGED recvVars

\* the firmware starts again: every global is initialised again and every
\* handler invocation is gone
Restart ==
    /\ ir_lock' = FALSE
    /\ gsCommandString' = << >>
    /\ pc' = [q \in Requests |-> "idle"]
    /\ value' = [q \in Requests |-> << >>]
    /\ args' = [q \in Requests |-> NoArgs]
    /\ hw' = [q \in Requests |-> << >>]
    /\ result' = [q \in Requests |-> "none"]
    /\ released' = [q \in Requests |-> 0]
    /\ waited' = [q \in Requests |-> FALSE]
    /\ blocks' = [q \in Requests |-> 0]
    /\ gbDecoderEnabled' = FALSE
    /\ gsReceiverString' = << >>
    /\ capture' = NoCapture
    /\ polledLocked' = FALSE
    /\ UNCHANGED <<published, source, received, decoderEnabled, captures, toggles>>

\* the exception of the read or of the store through NULL restarts the firmware
Reboot(p) ==
    /\ pc[p] \in {"crashed", "nullstore"}
    /\ Restart

\* the reset that Homie.reset() asked for takes place while newCodeArray is
\* in its delay(500)
ResetInDelay(p) ==
    /\ pc[p] = "allocfail"
    /\ \A q \in Requests : pc[q] \in YieldPoints
    /\ Restart

\* one step of a handler invocation
Handler(p) ==
    \/ Receive(p)
    \/ ProcessCommand(p)
    \/ Delay(p)
    \/ Wake(p)
    \/ Acquire(p)
    \/ Dispatch(p)
    \/ SendDone(p)
    \/ Release(p)
    \/ Report(p)
    \/ PublishEcho(p)
    \/ NullStore(p)
    \/ ResetInDelay(p)
    \/ Reboot(p)

AllParked_unlocked == (\A q \in Requests : pc[q] \in YieldPoints) /\ ~ir_lock

\* no invocation of commandHandler is executing
AllParked == \A q \in Requests : pc[q] \in YieldPoints

\* loopHandler: irrecv.decode() has a result, irDriverLoop formats it in
\* gsReceiverString and sends it on "received"
LoopHandler ==
    /\ AllParked
    /\ \E k \in captures :
           /\ capture' = k
           /\ gsReceiverString' = ReceiverString(k)
           /\ received' = ReceiverString(k)
    /\ polledLocked' = ir_lock
    /\ UNCHANGED <<gbDecoderEnabled, decoderEnabled, captures, toggles>>
    /\ UNCHANGED sendVars

\* decodeEnableHandler(value): "true" and "false" are stored and sent back,
\* anything else is refused
decodeEnableHandler(v) ==
    /\ AllParked
    /\ IF v # TrueText /\ v # FalseText
       THEN UNCHANGED <<gbDecoderEnabled, decoderEnabled>>
       ELSE /\ gbDecoderEnabled' = (v = TrueText)
            /\ decoderEnabled' = v
    /\ UNCHANGED <<gsReceiverString, capture, received, captures, toggles,
                   polledLocked>>
    /\ UNCHANGED sendVars

\* a message arrives on decoderEnabled/set
DecodeEnable == \E v \in toggles : decodeEnableHandler(v)

Next ==
    \/ \E p \in Requests : Handler(p)
    \/ LoopHandler
    \/ DecodeEnable

Spec == Init /\ [][Next]_vars

(***************************************************************************)
(* Vocabulary of the properties.                                           *)
(***************************************************************************)
\* request p is between its lock acquisition and its lock release
InCS(p) == pc[p] \in {"dispatch", "allocfail", "nullstore", "sending", "release"}

\* request p has entered sendIRCode
Called(p) == args[p] # NoArgs

\* the switch of request p has run
AfterSwitch(p) == Called(p) /\ pc[p] \in {"sending", "release", "report", "publish"}

\* request p called a hardware send primitive
Sent(p) == AfterSwitch(p) /\ hw[p] # << >>

\* the comma-separated fields of a text, empty ones included
RECURSIVE Fields(_)
Fields(s) ==
    IF \A i \in 1..Len(s) : s[i] # "," THEN <<s>>
    ELSE LET k == CHOOSE i \in 1..Len(s) :
                      s[i] = "," /\ \A j \in 1..(i - 1) : s[j] # ","
         IN  <<SubSeq(s, 1, k - 1)>> \o Fields(SubSeq(s, k + 1, Len(s)))

\* the number of comma-separated values of a payload
ValueCount(s) == Len(Fields(s))

\* the number of non-empty fields of a command
TokenCount(s) == Cardinality({i \in 1..Len(Fields(s)) : Fields(s)[i] # << >>})

\* the ids with a case in the switch, as the dispatch table lists them
TableIds ==
    {1, 2, 3, 4, 5, 6, 7, 8, 9, 10, 12, 13, 14, 15, 17, 19, 21, 22, 23, 25, 29, 30,
     31, 34, 35, 36, 39, 43, 47, 50, 51}

(***************************************************************************)
(* C1.  Mutual exclusion of sends: at no moment are two requests between   *)
(* their lock acquisition and their lock release, and a request is inside  *)
(* its hardware send call only while ir_lock is true; so the hardware call *)
(* of the request that acquired second comes after the first request has   *)
(* set ir_lock back to false.                                              *)
(***************************************************************************)
C1_MutualExclusion ==
    \A p \in Requests :
        InCS(p) => /\ ir_lock
                   /\ \A q \in Requests \ {p} : ~InCS(q)

\* a request that found the lock taken and waited is now in its hardware call
C1_Witness ==
    \E p \in Requests :
        /\ pc[p] = "sending" /\ waited[p]
        /\ \A q \in Requests \ {p} : ~InCS(q)

(***************************************************************************)
(* C2.  A dispatch holds ir_lock while it is in a hardware send, has not   *)
(* released before its switch is done, has set ir_lock to false exactly    *)
(* once when it is about to return and when processCommand has returned    *)
(* its result, on every exit path; ir_lock is false whenever no dispatch   *)
(* is between acquisition and release.                                     *)
(***************************************************************************)
C2_LockDiscipline ==
    /\ \A p \in Requests :
        /\ pc[p] = "sending" => ir_lock
        /\ pc[p] \in {"lockwait", "delay20", "dispatch", "allocfail", "nullstore",
                    "sending", "release"}
              => released[p] = 0
        /\ pc[p] = "report" => released[p] = 1 /\ ~ir_lock
        /\ (pc[p] = "publish" /\ Called(p))
              => released[p] = 1 /\ result[p] \in {"true", "false"}
    /\ (\A p \in Requests : ~InCS(p)) => ~ir_lock

\* a Pronto dispatch that failed for lack of values has returned false with
\* the lock released once
C2_Witness ==
    \E p \in Requests :
        /\ pc[p] = "publish" /\ Called(p) /\ args[p].ir_type = PRONTO
        /\ result[p] = "false" /\ released[p] = 1 /\ ~ir_lock

(***************************************************************************)
(* C3.  A dispatch of a protocol id without a case in the dispatch table   *)
(* calls no hardware send, returns failure and does not crash.             *)
(***************************************************************************)
C3_UnsupportedProtocol ==
    \A p \in Requests :
        (Called(p) /\ args[p].ir_type \notin TableIds)
            => /\ hw[p] = << >>
               /\ pc[p] \notin {"sending", "crashed"}
               /\ pc[p] = "publish" => result[p] = "false"

\* the dispatch of id 9999 has returned false without a hardware call
C3_Witness ==
    \E p \in Requests :
        /\ pc[p] = "publish" /\ Called(p) /\ args[p].ir_type = 9999
        /\ result[p] = "false" /\ hw[p] = << >>

(***************************************************************************)
(* C4.  Minimum repeat enforcement: for SONY, AIWA_RC_T501, MITSUBISHI,    *)
(* MITSUBISHI2, DISH, SHERWOOD and GICABLE, with declared minimum m, the   *)
(* repeat count given to the hardware send is m when the requested repeat  *)
(* r is below m and r when r >= m; for every other short-form protocol it  *)
(* is r.                                                                   *)
(***************************************************************************)
C4_MinimumRepeat ==
    \A p \in Requests :
        (Sent(p) /\ args[p].ir_type \in ShortFormTypes) =>
            LET t == args[p].ir_type
                r == args[p].repeat
                sent == hw[p][1].repeat
            IN  IF t \in {SONY, AIWA_RC_T501, MITSUBISHI, MITSUBISHI2, DISH,
                          SHERWOOD, GICABLE}
                THEN /\ r < MinRepeat(t) => sent = MinRepeat(t)
                     /\ r >= MinRepeat(t) => sent = r
                ELSE sent = r

\* DISH asked with repeat 2 is sent with repeat 3
C4_Witness ==
    \E p \in Requests :
        /\ Sent(p) /\ args[p].ir_type = DISH
        /\ args[p].repeat = 2 /\ hw[p][1].repeat = 3

(***************************************************************************)
(* C5.  Default bit width: a short-form send receives the protocol's       *)
(* default bit width when the requested width is 0 or absent from the      *)
(* command, and the requested width unchanged otherwise.                   *)
(***************************************************************************)
C5_DefaultBits ==
    \A p \in Requests :
        (Sent(p) /\ args[p].ir_type \in ShortFormTypes) =>
            LET t == args[p].ir_type
                sent == hw[p][1].bits
            IN  /\ args[p].bits = 0 => sent = DefaultBits(t)
                /\ args[p].bits # 0 => sent = args[p].bits
                /\ TokenCount(value[p]) < 3 => sent = DefaultBits(t)

\* NEC without a bit width is sent with the 32 bits of kNECBits
C5_Witness ==
    \E p \in Requests :
        /\ Sent(p) /\ args[p].ir_type = NEC /\ TokenCount(value[p]) = 2
        /\ hw[p][1].bits = 32

(***************************************************************************)
(* C6.  A Raw payload with fewer than 2 comma-separated values makes the   *)
(* Raw codec return false without a hardware send.                         *)
(***************************************************************************)
C6_RawInsufficientValues ==
    \A p \in Requests :
        (AfterSwitch(p) /\ args[p].ir_type = RAW /\ ValueCount(args[p].code_str) < 2)
            => /\ hw[p] = << >>
               /\ pc[p] = "publish" => result[p] = "false"

(***************************************************************************)
(* C7.  A Pronto payload with fewer than kProntoMinLength hex value tokens *)
(* (the R/r token not counted) makes the Pronto codec return false without *)
(* a hardware send.                                                        *)
(***************************************************************************)
C7_ProntoInsufficientValues ==
    \A p \in Requests :
        LET str == args[p].code_str
            values == IF HasEmbeddedRepeat(str) THEN ValueCount(str) - 1
                      ELSE ValueCount(str)
        IN  (AfterSwitch(p) /\ args[p].ir_type = PRONTO /\ values < kProntoMinLength)
                => /\ hw[p] = << >>
                   /\ pc[p] = "publish" => result[p] = "false"

(***************************************************************************)
(* C8.  Pronto repeat override: when the payload begins with R or r, the   *)
(* repeat count given to sendPronto is the decimal number after that       *)
(* letter, whatever repeat the caller passed, and the values given to      *)
(* sendPronto are those of the fields after the R field.                   *)
(***************************************************************************)
C8_ProntoRepeatOverride ==
    \A p \in Requests :
        LET str == args[p].code_str
            f == Fields(str)
        IN  (Sent(p) /\ args[p].ir_type = PRONTO /\ HasEmbeddedRepeat(str)) =>
                /\ hw[p][1].repeat = toInt16(Tail(f[1]))
                /\ hw[p][1].data = [i \in 1..(Len(f) - 1) |-> strtoul16(f[i + 1])]

\* "R2,..." is sent with repeat 2 although the caller passed another repeat
C8_Witness ==
    \E p \in Requests :
        /\ Sent(p) /\ args[p].ir_type = PRONTO
        /\ startsWith(args[p].code_str, <<"R", "2", ",">>)
        /\ args[p].repeat # 2 /\ hw[p][1].repeat = 2
        /\ Len(hw[p][1].data) = ValueCount(args[p].code_str) - 1

(***************************************************************************)
(* C9.  GlobalCache prefix stripping: given "1:1,1," followed by a value   *)
(* list L, the codec gives sendGC the same values, and as many, as it      *)
(* gives when handed L alone, and they are the decimal values of L.        *)
(***************************************************************************)
C9_GCPrefixStripping ==
    \A p \in Requests :
        LET str == args[p].code_str
            L == SubSeq(str, Len(GCPrefix) + 1, Len(str))
            alone == parseStringAndSendGC(L).calls[1]
        IN  (Sent(p) /\ args[p].ir_type = GLOBALCACHE /\ startsWith(str, GCPrefix)) =>
                /\ hw[p][1].data = alone.data
                /\ Len(hw[p][1].data) = ValueCount(L)
                /\ hw[p][1].data = [i \in 1..ValueCount(L) |-> toInt16(Fields(L)[i])]

\* "1:1,1,38000,1,170,70000,1" was sent as five values
C9_Witness ==
    \E p \in Requests :
        /\ Sent(p) /\ args[p].ir_type = GLOBALCACHE
        /\ startsWith(args[p].code_str, GCPrefix)
        /\ Len(hw[p][1].data) = 5 /\ hw[p][1].data[1] = 38000

(***************************************************************************)
(* C10.  A command with a protocol id and no second token is rejected:     *)
(* the step in which processCommand runs on it returns false without       *)
(* entering sendIRCode and leaves ir_lock, the hardware and the command    *)
(* echo as they were.                                                      *)
(***************************************************************************)
C10_MissingCodeRejected ==
    [][\A p \in Requests :
          (/\ pc[p] = "interval" /\ pc'[p] \in {"lockwait", "publish", "crashed"}
           /\ TokenCount(value[p]) = 1)
              => /\ pc'[p] = "publish" /\ result'[p] = "false"
                 /\ ~Called(p)' /\ released'[p] = 0
                 /\ ir_lock' = ir_lock /\ hw' = hw
                 /\ gsCommandString' = gsCommandString]_vars

\* "3" was rejected while the echo of an earlier command stayed in place
C10_Witness ==
    \E p \in Requests :
        /\ pc[p] = "publish" /\ value[p] = <<"3">> /\ result[p] = "false"
        /\ ~Called(p) /\ hw[p] = << >> /\ gsCommandString # << >>

(***************************************************************************)
(* C11.  processCommand is total on non-empty commands: whatever the       *)
(* command, it dispatches or returns failure, and never hands strtoul() a  *)
(* token that does not exist.                                              *)
(***************************************************************************)
C11_ParserTotal ==
    \A p \in Requests : value[p] # << >> => pc[p] # "crashed"

(***************************************************************************)
(* C12.  A command whose first token is not entirely a non-negative        *)
(* decimal number is malformed: processCommand returns failure for it and  *)
(* no hardware send is called.                                             *)
(***************************************************************************)
\* the token has a character that is not a decimal digit
NotDecimal(tok) == \E i \in 1..Len(tok) : ~isdigit(tok[i])

C12_NonDecimalIdRejected ==
    \A p \in Requests :
        (strtok_r(value[p]) # << >> /\ NotDecimal(strtok_r(value[p])[1]))
            => (hw[p] = << >> /\ result[p] # "true")

(***************************************************************************)
(* Vocabulary of the receive side.                                         *)
(***************************************************************************)
\* irDriverLoop has formatted a decode result since the last restart
Captured == capture # NoCapture

\* the firmware is running: no request is at an exception
Running == \A p \in Requests : pc[p] \notin {"crashed", "nullstore"}

\* the raw durations of a decode result, in microseconds
Durations(c) == [i \in 1..(c.rawlen - 1) |-> c.rawbuf[i + 1] * kRawTick]

RECURSIVE Flatten(_)
Flatten(groups) ==
    IF groups = << >> THEN << >> ELSE Head(groups) \o Flatten(Tail(groups))

RECURSIVE Sum(_)
Sum(g) == IF g = << >> THEN 0 ELSE Head(g) + Sum(Tail(g))

\* the values that stand for the duration d: k pairs (65535, 0) and the rest
SplitValues(d) ==
    LET k == IF d > 65535 THEN (d - 1) \div 65535 ELSE 0
    IN  [j \in 1..(2 * k + 1) |->
            IF j = 2 * k + 1 THEN d - k * 65535
            ELSE IF j % 2 = 1 THEN 65535 ELSE 0]

\* the numbers of a comma-separated text
ValuesOf(text) ==
    IF text = << >> THEN << >>
    ELSE LET f == Fields(text) IN [j \in 1..Len(f) |-> atol(f[j])]

\* the text a decode result is to be published as
ExpectedReceived(c) ==
    StringOfInt(c.decode_type) \o <<",">> \o resultToHexidecimal(c)
        \o (IF c.decode_type = UNKNOWN
            THEN LET vals == Flatten([i \in 1..(c.rawlen - 1) |->
                                         SplitValues(Durations(c)[i])])
                 IN  <<";">> \o Join([j \in 1..Len(vals) |-> StringOfInt(vals[j])])
            ELSE << >>)
        \o (IF hasACState(c.decode_type) THEN << >>
            ELSE <<",">> \o StringOfInt(c.bits))

(***************************************************************************)
(* C13.  The text published for a decode result is the decode type, a      *)
(* comma and the hex value; then, only for the UNKNOWN type, ";" and the   *)
(* comma-joined raw durations; then, only for a protocol without a state   *)
(* block, a comma and the bit count; nothing else, in this order.          *)
(***************************************************************************)
C13_ReceiveFormat ==
    Captured =>
        /\ gsReceiverString = ExpectedReceived(capture)
        /\ received = gsReceiverString

C13_Witness ==
    /\ Captured
    /\ capture.decode_type = UNKNOWN
    /\ capture.rawlen = kMinUnknownSize
    /\ Durations(capture)[1] > 65535
    /\ received = gsReceiverString
    /\ gsReceiverString # << >>

(***************************************************************************)
(* C14.  Every raw duration d is emitted as k pairs (65535, 0) followed by *)
(* one remainder: each emitted value is at most 65535, the values sum to   *)
(* d, the remainder is in 1..65535 when d > 65535, and d <= 65535 is       *)
(* emitted as the single value d.                                          *)
(***************************************************************************)
\* the duration values written in a received text: what is between the ";"
\* and the comma before the bit count
EmittedValues(text) ==
    LET semi == CHOOSE i \in 1..Len(text) : text[i] = ";"
        last == CHOOSE i \in 1..Len(text) :
                    text[i] = "," /\ \A j \in (i + 1)..Len(text) : text[j] # ","
    IN  ValuesOf(SubSeq(text, semi + 1, last - 1))

\* g is the split of the duration d
IsSplitOf(g, d) ==
    /\ Len(g) % 2 = 1
    /\ \A j \in 1..(Len(g) - 1) : g[j] = IF j % 2 = 1 THEN 65535 ELSE 0
    /\ \A j \in 1..Len(g) : g[j] <= 65535
    /\ Sum(g) = d
    /\ d > 65535 => g[Len(g)] \in 1..65535
    /\ d <= 65535 => g = <<d>>

C14_DurationSplit ==
    (Captured /\ capture.decode_type = UNKNOWN) =>
        LET groups == [i \in 1..(capture.rawlen - 1) |->
                          ValuesOf(DurationText(Durations(capture)[i]))]
        IN  /\ EmittedValues(gsReceiverString) = Flatten(groups)
            /\ \A i \in 1..(capture.rawlen - 1) :
                   IsSplitOf(groups[i], Durations(capture)[i])

C14_Witness ==
    /\ Captured
    /\ capture.decode_type = UNKNOWN
    /\ Durations(capture)[1] = 65536
    /\ Durations(capture)[2] = 131070
    /\ SubSeq(EmittedValues(gsReceiverString), 1, 6) = <<65535, 0, 1, 65535, 0, 65535>>

(***************************************************************************)
(* C15.  While gbDecoderEnabled is false the receive formatter does not    *)
(* run: no step of the running firmware changes gsReceiverString or sends  *)
(* on "received".                                                          *)
(***************************************************************************)
C15_ReceiveGate ==
    [][(~gbDecoderEnabled /\ Running)
          => (gsReceiverString' = gsReceiverString /\ received' = received)]_vars

(***************************************************************************)
(* C16.  Every command outcome is echoed with the protocol id and the code *)
(* of that same command: what commandHandler sends on "command" for a      *)
(* command begins with that command's id and code, also when it failed.    *)
(***************************************************************************)
\* the text e begins with the protocol id of the command v and, when v has a
\* second token, goes on with v's payload or with a code of the same value
EchoCarries(e, v) ==
    LET toks == strtok_r(v)
        ef == Fields(e)
        payload == substringFrom(v, indexOf(v, ",", 0) + 1)
    IN  /\ toks # << >>
        /\ ef[1] # << >>
        /\ \A i \in 1..Len(ef[1]) : isdigit(ef[1][i]) \/ (i = 1 /\ ef[1][i] = "-")
        /\ atol(ef[1]) = atol(toks[1])
        /\ Len(toks) >= 2 =>
               /\ Len(ef) >= 2
               /\ \/ substringFrom(e, indexOf(e, ",", 0) + 1) = payload
                  \/ getUInt64fromHex(ef[2]) = getUInt64fromHex(toks[2])
                  \/ (ef[2] # << >> /\ ef[2][1] \in {"R", "r"})

C16_EchoOfSameCommand ==
    [][\A p \in Requests :
           (pc[p] = "publish" /\ pc'[p] = "idle")
               => EchoCarries(published', value[p])]_vars

(***************************************************************************)
(* C17.  The echo tells what was transmitted: after a successful send the  *)
(* bit width and repeat count in gsCommandString are those passed to the   *)
(* hardware send; for Pronto the repeat count of the echoed "R<n>" prefix  *)
(* is the one passed to sendPronto and the echoed values are the           *)
(* transmitted values.                                                     *)
(***************************************************************************)
\* request p has returned from a successful sendIRCode
Succeeded(p) == Called(p) /\ pc[p] = "publish" /\ result[p] = "true"

C17_EchoIsWhatWasSent ==
    \A p \in Requests :
        Succeeded(p) =>
            LET ef == Fields(gsCommandString)
                hasR == Len(ef) >= 2 /\ ef[2] # << >> /\ ef[2][1] \in {"R", "r"}
                vals == SubSeq(ef, IF hasR THEN 3 ELSE 2, Len(ef))
            IN  /\ args[p].ir_type \in ShortFormTypes =>
                       /\ Len(ef) = 4
                       /\ ef[3] = StringOfInt(hw[p][1].bits)
                       /\ ef[4] = StringOfInt(hw[p][1].repeat)
                /\ args[p].ir_type = PRONTO =>
                       /\ hasR => atol(Tail(ef[2])) = hw[p][1].repeat
                       /\ [j \in 1..Len(vals) |-> strtoul16(vals[j])] = hw[p][1].data

(***************************************************************************)
(* C18.  Short-form round trip: the text published for a decode result     *)
(* (p, c, b) of a short-form protocol with b # 0 is "p,hex(c),b"; the      *)
(* command parser reads protocol id p, code c, bit width b and repeat 0    *)
(* from it; and getUInt64fromHex gives c back from hex(c), with or without *)
(* a 0x prefix and in either letter case.                                  *)
(***************************************************************************)
\* the text in lower case, for the letters of a hex number
ToLower(t) ==
    [i \in 1..Len(t) |->
        IF isupper(t[i]) THEN LowerHex[CHOOSE k \in 1..6 : UpperHex[k] = t[i]]
        ELSE t[i]]

C18_ShortFormRoundTrip ==
    (Captured /\ capture.decode_type \in ShortFormTypes /\ capture.bits # 0) =>
        LET hex == uint64ToString16(capture.value)
            cmd == DecodeCommand(gsReceiverString)
        IN  /\ gsReceiverString =
                   StringOfInt(capture.decode_type) \o <<",">> \o hex \o <<",">>
                       \o StringOfInt(capture.bits)
            /\ Len(strtok_r(gsReceiverString)) = 3
            /\ cmd.ir_type = capture.decode_type
            /\ cmd.code = capture.value
            /\ cmd.bits = capture.bits
            /\ cmd.repeat = 0
            /\ getUInt64fromHex(hex) = capture.value
            /\ getUInt64fromHex(ToLower(hex)) = capture.value
            /\ getUInt64fromHex(<<"0", "x">> \o hex) = capture.value
            /\ getUInt64fromHex(<<"0", "X">> \o ToLower(hex)) = capture.value

C18_Witness ==
    /\ Captured
    /\ capture.decode_type = NEC
    /\ capture.bits = 32
    /\ gsReceiverString =
           <<"3", ",", "A", "B", "C", "D", "E", "F", "0", "1", "2", "3", "4", "5",
             "6", "7", "8", "9", ",", "3", "2">>
    /\ DecodeCommand(gsReceiverString).code = capture.value

(***************************************************************************)
(* C19.  One transmission per dispatch.  As stated: a dispatch of a        *)
(* protocol id in the table calls the hardware send exactly once, no       *)
(* dispatch calls it more than once, and a dispatch returns success if and *)
(* only if it called it once.                                              *)
(***************************************************************************)
\* sendIRCode of request p has returned
Returned(p) == Called(p) /\ pc[p] = "publish"

C19_ExactlyOneSend ==
    \A p \in Requests :
        /\ Len(hw[p]) <= 1
        /\ Returned(p) =>
               /\ args[p].ir_type \in TableIds => Len(hw[p]) = 1
               /\ result[p] = "true" <=> Len(hw[p]) = 1
               /\ result[p] = "false" => Len(hw[p]) = 0

\* a Pronto dispatch whose payload has fewer than kProntoMinLength - 1 values
\* after the optional repeat token
ShortPronto(a) ==
    /\ a.ir_type = PRONTO
    /\ ValueCount(a.code_str) - (IF HasEmbeddedRepeat(a.code_str) THEN 1 ELSE 0)
           < kProntoMinLength - 1

(***************************************************************************)
(* C19, amended.  No dispatch calls the hardware send more than once; a    *)
(* dispatch returns success if and only if it called it once, and a        *)
(* failed dispatch called it zero times; a dispatch of a protocol id in    *)
(* the table calls it exactly once, except a Pronto dispatch whose payload *)
(* is too short for the codec, which calls it zero times and fails.        *)
(***************************************************************************)
C19_AtMostOneSend ==
    \A p \in Requests :
        /\ Len(hw[p]) <= 1
        /\ Returned(p) =>
               /\ (args[p].ir_type \in TableIds /\ ~ShortPronto(args[p]))
                      => Len(hw[p]) = 1
               /\ ShortPronto(args[p]) => (Len(hw[p]) = 0 /\ result[p] = "false")
               /\ result[p] = "true" <=> Len(hw[p]) = 1
               /\ result[p] = "false" => Len(hw[p]) = 0

C19_Witness ==
    \E p \in Requests :
        /\ Returned(p)
        /\ ShortPronto(args[p])
        /\ ValueCount(args[p].code_str) = 2
        /\ hw[p] = << >>
        /\ result[p] = "false"

(***************************************************************************)
(* C20.  Allocation exhaustion is fatal: when the array of a codec cannot  *)
(* be allocated, the codec never stores a value through the NULL pointer   *)
(* and never calls the hardware send with it; only the restart follows.    *)
(***************************************************************************)
C20_AllocationFailureFatal ==
    \A p \in Requests : pc[p] # "nullstore"

(***************************************************************************)
(* C21.  Receive polling is independent of the send side: a poll that      *)
(* formats a decode result leaves ir_lock and gsCommandString as they are  *)
(* and is possible in every state of the lock, also while it is held; and  *)
(* no step of a dispatch changes gsReceiverString.                         *)
(***************************************************************************)
\* the step is a restart of the firmware
RestartStep ==
    \E p \in Requests :
        pc[p] \in {"crashed", "nullstore", "allocfail"} /\ pc'[p] = "idle"

\* the step is irDriverLoop formatting and publishing a decode result
ReceiveStep ==
    /\ ~RestartStep
    /\ capture' # capture \/ received' # received
           \/ gsReceiverString' # gsReceiverString

\* the step belongs to an invocation of commandHandler
SendStep == pc' # pc /\ ~RestartStep

C21_ReceiveIndependent ==
    /\ [][ReceiveStep => (ir_lock' = ir_lock /\ gsCommandString' = gsCommandString
                              /\ published' = published /\ pc' = pc)]_vars
    /\ [][SendStep => (gsReceiverString' = gsReceiverString
                           /\ received' = received /\ capture' = capture)]_vars
    /\ []((captures # {} /\ \A q \in Requests : pc[q] \in YieldPoints)
              => ENABLED LoopHandler)

\* a decode result was formatted and published while a request was in its
\* hardware send with the lock held
C21_Witness ==
    /\ polledLocked
    /\ ir_lock
    /\ Captured
    /\ received = gsReceiverString
    /\ \E p \in Requests : pc[p] = "sending" /\ hw[p] # << >>


(***************************************************************************)
(* Guard liveness: the specification with fair scheduling.                 *)
(***************************************************************************)
\* the broker's repertoire of the fair specification: a short-form command,
\* a Raw command (which allocates) and a command without any token, while
\* the receiver delivers one NEC result and the toggle is set to "true"
FairCommands ==
    {Join(<<StringOfInt(NEC), <<"f", "f">>>>),
     StringOfInt(RAW) \o <<",">> \o Join([i \in 1..3 |-> DecTok(i)]),
     <<",">>}

InitFair ==
    /\ ir_lock = FALSE
    /\ gsCommandString = << >>
    /\ published = << >>
    /\ source = FairCommands
    /\ captures = {[decode_type |-> NEC, value |-> Zero64, bits |-> 32,
                    rawlen |-> 1, rawbuf |-> <<1000>>, state |-> << >>]}
    /\ toggles = {TrueText}
    /\ gbDecoderEnabled = FALSE
    /\ gsReceiverString = << >>
    /\ capture = NoCapture
    /\ received = << >>
    /\ decoderEnabled = << >>
    /\ polledLocked = FALSE
    /\ pc = [p \in Requests |-> "idle"]
    /\ value = [p \in Requests |-> << >>]
    /\ args = [p \in Requests |-> NoArgs]
    /\ hw = [p \in Requests |-> << >>]
    /\ result = [p \in Requests |-> "none"]
    /\ released = [p \in Requests |-> 0]
    /\ waited = [p \in Requests |-> FALSE]
    /\ blocks = [p \in Requests |-> 0]

\* the positions of a handler invocation
Positions ==
    {"idle", "interval", "lockwait", "delay20", "dispatch", "sending", "release",
     "report", "publish", "allocfail", "nullstore", "crashed"}

\* the invocation p has a statement to execute or a delay() or hardware
\* call to return from, and no other invocation is executing
Runnable(p) == CanRun(p) /\ pc[p] # "idle"

\* the invocation p leaves its position (by a step of its own, or with
\* every invocation when its step restarts the firmware)
Scheduled(p) ==
    /\ Runnable(p)
    /\ \/ \E s \in Positions : pc' = [pc EXCEPT ![p] = s]
       \/ pc' = [q \in Requests |-> "idle"]

\* every delay() and every hardware call returns and the statements after
\* it are executed: an invocation that is runnable again and again is run
\* again and again.  Nothing is assumed about the value of ir_lock at the
\* moment a delay(20) returns: the busy-wait has no queue.
Fairness == \A p \in Requests : SF_pc(Scheduled(p))

SpecFair == InitFair /\ [][Next]_vars /\ Fairness

\* request p is in the busy-wait of sendIRCode
Waiting(p) == Called(p) /\ pc[p] \in {"lockwait", "delay20"}

\* sendIRCode has returned a result to request p after one release of the lock
Done(p) == pc[p] = "publish" /\ result[p] \in {"true", "false"} /\ released[p] = 1

\* an allocation has failed or a handler invocation has crashed
Faulted == \E q \in Requests : pc[q] \in {"allocfail", "nullstore", "crashed"}

\* no request other than the holder of the lock is past the busy-wait
OthersHeldBack ==
    \A p, q \in Requests :
        (p # q /\ InCS(q)) => pc[p] \notin {"dispatch", "sending", "release"}

CodecSent(p) == Sent(p) /\ args[p].ir_type \in CodecTypes

\* C23.  Exact allocation: the size a codec requests from newCodeArray is
\* the number of values its fill loop then stores, and countValuesInStr
\* returns the number of comma-separated values of the payload.
C23_ExactAllocation ==
    \A p \in Requests :
        CodecSent(p) =>
            /\ hw[p][1].alloc = Len(hw[p][1].data)
            /\ countValuesInStr(args[p].code_str, ",") = ValueCount(args[p].code_str)

(***************************************************************************)
(* Heap blocks of a command.                                               *)
(***************************************************************************)
\* C24.  No allocation outlives its command: when processCommand has
\* returned, on every path, the invocation has freed every heap block it
\* allocated (the strdup copy of the command and any codec array).
C24_NothingOutlivesCommand ==
    \A p \in Requests : pc[p] = "publish" => blocks[p] = 0

(***************************************************************************)
(* The fields of a command.                                                *)
(***************************************************************************)
\* the code, bit width and repeat count read from the second, third and
\* fourth comma-separated field of a command, an empty or missing field
\* giving 0
Positional(c) ==
    LET f == Fields(c)
    IN  [code |-> getUInt64fromHex(f[2]),
         bits |-> IF Len(f) >= 3 THEN U16(atol(f[3])) ELSE 0,
         repeat |-> IF Len(f) >= 4 THEN U16(atol(f[4])) ELSE 0]

\* C25.  Positional fields: the code, the bit width and the repeat count
\* sendIRCode is called with are the values of the text between the first
\* and second, second and third, third and fourth comma of the command; an
\* empty field counts as absent and does not shift the later fields.
C25_PositionalFields ==
    \A p \in Requests :
        Called(p) =>
            /\ args[p].code = Positional(value[p]).code
            /\ args[p].bits = Positional(value[p]).bits
            /\ args[p].repeat = Positional(value[p]).repeat

(***************************************************************************)
(* The repeat count of a Pronto send.                                      *)
(***************************************************************************)
\* values a waveform token is changed to
WaveTokens == {<<"0", "0", "0", "0">>, <<"0", "0", "0", "1">>}

\* the commands that differ from command c in one token after the id
Variants(c) ==
    LET f == Fields(c)
    IN  {Join([f EXCEPT ![i] = t]) : i \in 2..Len(f), t \in WaveTokens} \ {c}

\* request p sent a Pronto payload that has no R token
PlainProntoSent(p) ==
    /\ Sent(p)
    /\ args[p].ir_type = PRONTO
    /\ ~HasEmbeddedRepeat(args[p].code_str)

\* C26.  For a Pronto command without R token the repeat count passed to
\* sendPronto does not depend on the waveform values: it is 0, and a
\* command that differs in one waveform token is sent with the same count.
C26_ProntoRepeatIndependent ==
    \A p \in Requests :
        PlainProntoSent(p) =>
            /\ hw[p][1].repeat = 0
            /\ \A c \in Variants(value[p]) :
                   LET calls == SendSwitch(DecodeCommand(c)).calls
                   IN  calls # << >> => calls[1].repeat = hw[p][1].repeat

(***************************************************************************)
(* Bounds of the codec arrays.                                             *)
(***************************************************************************)
\* C27.  Buffer bounds: in each long-form codec, for every payload that
\* passes the codec's length check, the fill loop writes only at indexes
\* below the size obtained from newCodeArray (it writes at 0 .. count-1),
\* and the length passed to the hardware send is at most that size.
C27_BufferBounds ==
    \A p \in Requests :
        CodecSent(p) =>
            /\ \A i \in 0..(Len(hw[p][1].data) - 1) : i < hw[p][1].alloc
            /\ Len(hw[p][1].data) <= hw[p][1].alloc

\* a Pronto payload with R token, or a GlobalCache payload with prefix, has
\* been stored in its array and sent
C27_Witness ==
    \E p \in Requests :
        /\ CodecSent(p)
        /\ hw[p][1].data # << >>
        /\ \/ args[p].ir_type = PRONTO /\ HasEmbeddedRepeat(args[p].code_str)
           \/ args[p].ir_type = GLOBALCACHE /\ startsWith(args[p].code_str, GCPrefix)

=============================================================================
